---- MODULE Spec2Model ----
(***************************************************************************)
(* Model of the lyric-file parser and tokenizer parseLRC                   *)
(* (src/unnamed/part_000) and of the component that uses it: the player,   *)
(* the notes (src/App.tsx) and the word-detail modal                       *)
(* (src/components/WordDetailModal.tsx, src/services/geminiService.ts).    *)
(* Spec is one call of parseLRC, SpecLookup one load followed by playback, *)
(* SpecPlayer any loads and playback, SpecNotes the notes, SpecModal the   *)
(* modal.                                                                  *)
(*                                                                         *)
(* A string is a sequence of UTF-16 code units (naturals), as in the       *)
(* JavaScript source; a "character" is one of them.  A time is held in     *)
(* milliseconds: the source computes minute * 60 + second +                *)
(* millisecond / 1000 seconds, and every value it can produce is k / 1000  *)
(* for a natural k below 6040000, so the order and the equality of times   *)
(* are those of k.                                                         *)
(***************************************************************************)
EXTENDS Integers, Sequences, FiniteSets, TLC

(***************************************************************************)
(* Bounds of the model.                                                    *)
(***************************************************************************)
\* longest free text (over TextAlphabet) put after the marker of a line
MaxTextLen == 4
\* most physical lines of a multi-line input
MaxLines == 3

(***************************************************************************)
(* Character classes of the source.                                        *)
(***************************************************************************)
\* \d of timeRegex: the ASCII digits
IsDigit(c) == c \in 48..57

\* WhiteSpace and LineTerminator of ECMAScript: what String.prototype.trim
\* removes and what \s matches
WhiteSpace ==
    {9, 10, 11, 12, 13, 32, 160, 5760, 8232, 8233, 8239, 8287, 12288, 65279}
        \cup (8192..8202)

\* a trim that leaves the carriage return
TrimSpace_KeepCR == WhiteSpace \ {13}

\* the code units .trim() removes at both ends
TrimSpace == WhiteSpace

\* the class \s of /\s+/
RegexSpace == WhiteSpace

\* /[\u3040-\u309F\u30A0-\u30FF]/.test(text)
hasJapanese(text) ==
    \E i \in 1..Len(text) :
        \/ text[i] \in 12352..12447
        \/ text[i] \in 12448..12543

\* /[\u4E00-\u9FFF]/.test(text)
hasChineseChars(text) ==
    \E i \in 1..Len(text) : text[i] \in 19968..40959

\* hasChineseChars && !hasJapanese
isChinese(text) == hasChineseChars(text) /\ ~hasJapanese(text)

(***************************************************************************)
(* String operations of the source.                                        *)
(***************************************************************************)
CharAt(s, p) == IF p \in 1..Len(s) THEN s[p] ELSE -1

RECURSIVE SplitFrom(_, _, _, _)
SplitFrom(s, sep, i, cur) ==
    IF i > Len(s) THEN << cur >>
    ELSE IF s[i] = sep THEN << cur >> \o SplitFrom(s, sep, i + 1, << >>)
    ELSE SplitFrom(s, sep, i + 1, Append(cur, s[i]))

\* lrcContent.split('\n')
SplitLines(s) == SplitFrom(s, 10, 1, << >>)

\* \d{1,3} in place of \d{2,3}
FractionTail_OneDigit(s, p) ==
    IF /\ CharAt(s, p) = 46
       /\ IsDigit(CharAt(s, p + 1)) /\ IsDigit(CharAt(s, p + 2))
       /\ IsDigit(CharAt(s, p + 3))
       /\ CharAt(s, p + 4) = 93
    THEN 5
    ELSE IF /\ CharAt(s, p) = 46
            /\ IsDigit(CharAt(s, p + 1)) /\ IsDigit(CharAt(s, p + 2))
            /\ CharAt(s, p + 3) = 93
    THEN 4
    ELSE IF /\ CharAt(s, p) = 46
            /\ IsDigit(CharAt(s, p + 1))
            /\ CharAt(s, p + 2) = 93
    THEN 3
    ELSE IF CharAt(s, p) = 93 THEN 1
    ELSE 0

\* the length matched by (\.(\d{2,3}))?\] at position p of s, 0 when it
\* does not match there; \d{2,3} is greedy, so three digits are tried first
FractionTail(s, p) ==
    IF /\ CharAt(s, p) = 46
       /\ IsDigit(CharAt(s, p + 1)) /\ IsDigit(CharAt(s, p + 2))
       /\ IsDigit(CharAt(s, p + 3))
       /\ CharAt(s, p + 4) = 93
    THEN 5
    ELSE IF /\ CharAt(s, p) = 46
            /\ IsDigit(CharAt(s, p + 1)) /\ IsDigit(CharAt(s, p + 2))
            /\ CharAt(s, p + 3) = 93
    THEN 4
    ELSE IF CharAt(s, p) = 93 THEN 1
    ELSE 0

\* the length of the match of timeRegex starting at position i, 0 if none
MatchLenAt(s, i) ==
    IF /\ CharAt(s, i) = 91
       /\ IsDigit(CharAt(s, i + 1)) /\ IsDigit(CharAt(s, i + 2))
       /\ CharAt(s, i + 3) = 58
       /\ IsDigit(CharAt(s, i + 4)) /\ IsDigit(CharAt(s, i + 5))
       /\ FractionTail(s, i + 6) > 0
    THEN 6 + FractionTail(s, i + 6)
    ELSE 0

\* timeRegex.exec(line): the leftmost match, index 0 standing for null
timeRegexExec(line) ==
    LET hits == {i \in 1..Len(line) : MatchLenAt(line, i) > 0}
    IN IF hits = {} THEN [index |-> 0, len |-> 0]
       ELSE LET i == CHOOSE h \in hits : \A g \in hits : h <= g
            IN [index |-> i, len |-> MatchLenAt(line, i)]

\* parseInt(digits, 10) on a string of ASCII digits
RECURSIVE parseInt(_)
parseInt(ds) ==
    IF ds = << >> THEN 0
    ELSE parseInt(SubSeq(ds, 1, Len(ds) - 1)) * 10 + (ds[Len(ds)] - 48)

\* padStart in place of padEnd
RECURSIVE padEnd_Start(_, _)
padEnd_Start(s, n) ==
    IF Len(s) >= n THEN s ELSE padEnd_Start(<< 48 >> \o s, n)

\* s.padEnd(n, '0')
RECURSIVE padEnd(_, _)
padEnd(s, n) == IF Len(s) >= n THEN s ELSE padEnd(Append(s, 48), n)

\* minute * 60 + second + millisecond / 1000, in milliseconds
LineTime(line, m) ==
    LET minute == parseInt(SubSeq(line, m.index + 1, m.index + 2))
        second == parseInt(SubSeq(line, m.index + 4, m.index + 5))
        group4 == IF m.len > 7
                  THEN SubSeq(line, m.index + 7, m.index + m.len - 2)
                  ELSE << >>
        millisecond == IF group4 # << >> THEN parseInt(padEnd(group4, 3))
                       ELSE 0
    IN (minute * 60 + second) * 1000 + millisecond

\* the regex made global: every match goes
RECURSIVE Replace_All(_, _)
Replace_All(line, m) ==
    LET rest == SubSeq(line, 1, m.index - 1)
                    \o SubSeq(line, m.index + m.len, Len(line))
    IN IF timeRegexExec(rest).index = 0 THEN rest
       ELSE Replace_All(rest, timeRegexExec(rest))

\* line.replace(timeRegex, ''): the regex is not global, one match goes
Replace(line, m) ==
    SubSeq(line, 1, m.index - 1) \o SubSeq(line, m.index + m.len, Len(line))

\* the trim left out
trim_None(s) == s

\* String.prototype.trim
trim(s) ==
    LET keep == {i \in 1..Len(s) : s[i] \notin TrimSpace}
    IN IF keep = {} THEN << >>
       ELSE SubSeq(s, CHOOSE a \in keep : \A b \in keep : a <= b,
                      CHOOSE a \in keep : \A b \in keep : a >= b)

\* line.replace(timeRegex, '').trim()
LineText(line, m) == trim(Replace(line, m))

\* the catch block without its fallback
SplitChars_None(text) == << >>

\* text.split('')
SplitChars(text) == [i \in 1..Len(text) |-> << text[i] >>]

RECURSIVE SplitSpaceFrom(_, _, _, _)
SplitSpaceFrom(s, i, cur, inRun) ==
    IF i > Len(s) THEN << cur >>
    ELSE IF s[i] \in RegexSpace
    THEN IF inRun THEN SplitSpaceFrom(s, i + 1, cur, TRUE)
         ELSE << cur >> \o SplitSpaceFrom(s, i + 1, << >>, TRUE)
    ELSE SplitSpaceFrom(s, i + 1, Append(cur, s[i]), FALSE)

\* /\s/ in place of /\s+/: every white-space code unit separates
SplitSpace_EachSpace(text) ==
    LET seps == {0, Len(text) + 1}
                    \cup {p \in 1..Len(text) : text[p] \in RegexSpace}
        starts == seps \ {Len(text) + 1}
        rank(p) == Cardinality({q \in starts : q <= p})
        next(p) == CHOOSE q \in seps : q > p /\ \A r \in seps : r > p => q <= r
    IN [k \in 1..Cardinality(starts) |->
           LET p == CHOOSE q \in starts : rank(q) = k
           IN SubSeq(text, p + 1, next(p) - 1)]

\* ' ' in place of /\s+/: only U+0020 separates, one at a time
SplitSpace_BlankOnly(text) == SplitFrom(text, 32, 1, << >>)

\* text.split(/\s+/): a separator is a maximal run of \s; a leading or a
\* trailing run leaves an empty fragment
SplitSpace(text) == SplitSpaceFrom(text, 1, << >>, FALSE)

(***************************************************************************)
(* Intl.Segmenter('ja', {granularity: 'word'}), the runtime's capability.  *)
(* It cuts the text into consecutive non-empty segments and flags each     *)
(* isWordLike; where it cuts inside a run of word characters depends on    *)
(* its dictionary and is left open.  A segment never mixes word characters *)
(* with white space or punctuation.                                        *)
(***************************************************************************)
IsWordChar(c) ==
    \/ c \in 48..57 \/ c \in 65..90 \/ c \in 97..122
    \/ c \in 12352..12447 \/ c \in 12448..12543
    \/ c \in 19968..40959
    \/ c \in 55296..57343

RECURSIVE CutAt(_, _, _)
CutAt(text, cuts, from) ==
    IF from > Len(text) THEN << >>
    ELSE LET ends == {p \in from..Len(text) : p \in cuts \/ p = Len(text)}
             to == CHOOSE p \in ends : \A q \in ends : p <= q
             seg == SubSeq(text, from, to)
         IN << [segment |-> seg, isWordLike |-> IsWordChar(seg[1])] >>
                \o CutAt(text, cuts, to + 1)

\* every result segmenter.segment(text) may give
Segmentations(text) ==
    LET forced == {p \in 1..(Len(text) - 1) :
                      IsWordChar(text[p]) # IsWordChar(text[p + 1])}
        \* a surrogate pair is one code point: no cut inside it
        inPair == {p \in 1..(Len(text) - 1) :
                      text[p] \in 55296..56319 /\ text[p + 1] \in 56320..57343}
    IN {CutAt(text, cuts, 1) :
           cuts \in {c \in SUBSET ((1..(Len(text) - 1)) \ inPair) :
                        forced \subseteq c}}

\* the isWordLike filter left out
WordLikeSegments_All(segs) == [i \in 1..Len(segs) |-> segs[i].segment]

RECURSIVE WordLikeSegments(_)
\* Array.from(segments).filter(s => s.isWordLike).map(s => s.segment)
WordLikeSegments(segs) ==
    IF segs = << >> THEN << >>
    ELSE (IF segs[1].isWordLike THEN << segs[1].segment >> ELSE << >>)
            \o WordLikeSegments(Tail(segs))

(***************************************************************************)
(* lyrics.sort((a, b) => a.time - b.time): Array.prototype.sort is stable. *)
(***************************************************************************)
\* a sort that puts a line before the lines of equal time
RECURSIVE InsertByTime_BeforeEqual(_, _)
InsertByTime_BeforeEqual(sorted, x) ==
    IF sorted = << >> THEN << x >>
    ELSE IF sorted[Len(sorted)].time - x.time < 0 THEN Append(sorted, x)
    ELSE Append(InsertByTime_BeforeEqual(SubSeq(sorted, 1, Len(sorted) - 1), x),
                sorted[Len(sorted)])

RECURSIVE InsertByTime(_, _)
InsertByTime(sorted, x) ==
    IF sorted = << >> THEN << x >>
    ELSE IF sorted[Len(sorted)].time - x.time <= 0 THEN Append(sorted, x)
    ELSE Append(InsertByTime(SubSeq(sorted, 1, Len(sorted) - 1), x),
                sorted[Len(sorted)])

\* the final sort left out
SortByTime_None(seq) == seq

RECURSIVE SortByTime(_)
SortByTime(seq) ==
    IF seq = << >> THEN << >>
    ELSE InsertByTime(SortByTime(SubSeq(seq, 1, Len(seq) - 1)), seq[Len(seq)])

\* the ideograph test put before the Kana test
ScriptOf_ChineseFirst(text) ==
    IF hasChineseChars(text) THEN "chinese"
    ELSE IF hasJapanese(text) THEN "japanese"
    ELSE "latin"

\* the branch of the if / else if chain that tokenizes text
ScriptOf(text) ==
    IF hasJapanese(text) THEN "japanese"
    ELSE IF ~isChinese(text) THEN "latin"
    ELSE "chinese"

\* an ideograph line split like a Latin one
UnsplitWords_Split(text) == SplitSpace(text)

\* words of a line the chain leaves alone: let words: string[] = []
UnsplitWords(text) == << >>

(***************************************************************************)
(* Inputs.  Every family is a set of file contents; a file is read whole.  *)
(***************************************************************************)
\* space, a, HIRAGANA A, the ideograph U+4E2D, IDEOGRAPHIC COMMA
TextAlphabet == {32, 97, 12354, 20013, 12289}

Strings(n) == UNION {[1..k -> TextAlphabet] : k \in 0..n}

Marker(mm, ss, f) ==
    << 91 >> \o mm \o << 58 >> \o ss
        \o (IF f = << >> THEN << >> ELSE << 46 >> \o f) \o << 93 >>

\* '[00:01]'
PlainMarker == Marker(<< 48, 48 >>, << 48, 49 >>, << >>)

\* one line, '[00:01]' and then a free text
BodyInputs == {PlainMarker \o b : b \in Strings(MaxTextLen)}

\* minutes 00, 01, 12 and the one-digit 1
Minutes == {<< 48, 48 >>, << 48, 49 >>, << 49, 50 >>, << 49 >>}
\* seconds 00, 01, 59, 99 and the one-digit 5
Seconds == {<< 48, 48 >>, << 48, 49 >>, << 53, 57 >>, << 57, 57 >>, << 53 >>}
\* no fraction, 5, 05, 50, 500, 050, 005, 999, 1234
Fractions ==
    {<< >>, << 53 >>, << 48, 53 >>, << 53, 48 >>, << 53, 48, 48 >>,
     << 48, 53, 48 >>, << 48, 48, 53 >>, << 57, 57, 57 >>,
     << 49, 50, 51, 52 >>}

Markers == {Marker(mm, ss, f) : mm \in Minutes, ss \in Seconds, f \in Fractions}

\* nothing, a space, 'a ', HIRAGANA A
Prefixes == {<< >>, << 32 >>, << 97, 32 >>, << 12354 >>}
\* nothing, 'a', ' a b ', tab, 'a' and a carriage return, U+4E2D
Suffixes ==
    {<< >>, << 97 >>, << 32, 97, 32, 98, 32 >>, << 9 >>, << 97, 13 >>,
     << 20013 >>}

\* one line around one marker, well formed or not
MarkerInputs ==
    {p \o m \o s : p \in Prefixes, m \in Markers, s \in Suffixes}

\* '[00:01.00]', '[00:02.00]', '[00:01.5]', '[00:03]'
FewMarkers ==
    {Marker(<< 48, 48 >>, << 48, 49 >>, << 48, 48 >>),
     Marker(<< 48, 48 >>, << 48, 50 >>, << 48, 48 >>),
     Marker(<< 48, 48 >>, << 48, 49 >>, << 53 >>),
     Marker(<< 48, 48 >>, << 48, 51 >>, << >>)}

\* 'text', nothing, ' a', HIRAGANA A and U+4E2D
FewTexts ==
    {<< 116, 101, 120, 116 >>, << >>, << 32, 97 >>, << 12354, 20013 >>}

\* one line with two or three markers
TwoMarkerInputs ==
    {m1 \o g \o m2 \o t \o m3 :
        m1 \in FewMarkers, g \in {<< >>, << 97 >>}, m2 \in FewMarkers,
        t \in FewTexts, m3 \in {<< >>, PlainMarker}}

\* the inputs the specification names, and four more
\* '[00:01.50]Hello world'
ExHelloWorld ==
    << 91, 48, 48, 58, 48, 49, 46, 53, 48, 93, 72, 101, 108, 108, 111,
       32, 119, 111, 114, 108, 100 >>
\* '[00:02.5]' U+4F60 U+597D U+4E16 U+754C
ExChineseOneDigit ==
    << 91, 48, 48, 58, 48, 50, 46, 53, 93, 20320, 22909, 19990, 30028 >>
\* '[00:02.50]' U+4F60 U+597D U+4E16 U+754C
ExChineseTwoDigit ==
    << 91, 48, 48, 58, 48, 50, 46, 53, 48, 93, 20320, 22909, 19990,
       30028 >>
\* '[01:00]' U+3053 U+3093 U+306B U+3061 U+306F
ExKonnichiwa ==
    << 91, 48, 49, 58, 48, 48, 93, 12371, 12435, 12395, 12385, 12399 >>
\* 'no timestamp here'
ExNoTimestamp ==
    << 110, 111, 32, 116, 105, 109, 101, 115, 116, 97, 109, 112, 32,
       104, 101, 114, 101 >>
\* '[00:05]   '
ExBlankAfterMarker ==
    << 91, 48, 48, 58, 48, 53, 93, 32, 32, 32 >>
\* '[00:01.00][00:02.00]text'
ExTwoMarkers ==
    << 91, 48, 48, 58, 48, 49, 46, 48, 48, 93, 91, 48, 48, 58, 48, 50,
       46, 48, 48, 93, 116, 101, 120, 116 >>
\* '[00:01.5]a'
ExFracOne ==
    << 91, 48, 48, 58, 48, 49, 46, 53, 93, 97 >>
\* '[00:01.50]a'
ExFracTwo ==
    << 91, 48, 48, 58, 48, 49, 46, 53, 48, 93, 97 >>
\* '[00:01.500]a'
ExFracThree ==
    << 91, 48, 48, 58, 48, 49, 46, 53, 48, 48, 93, 97 >>
\* '[00:01.05]a'
ExFracCenti ==
    << 91, 48, 48, 58, 48, 49, 46, 48, 53, 93, 97 >>
\* '[00:07]caf' U+00E9 '  ' U+043C U+0438 U+0440 tab U+FF76 U+FF85 (Latin, Cyrillic, halfwidth Katakana)
ExMixedLatin ==
    << 91, 48, 48, 58, 48, 55, 93, 99, 97, 102, 233, 32, 32, 1084, 1080,
       1088, 9, 65398, 65413 >>
\* '[00:08]' U+6211 ' love 42 ' U+4F60
ExChineseWithLatin ==
    << 91, 48, 48, 58, 48, 56, 93, 25105, 32, 108, 111, 118, 101, 32,
       52, 50, 32, 20320 >>
\* '[00:09]' U+541B U+306E ' ' U+540D U+306F U+3002
ExJapaneseSpaced ==
    << 91, 48, 48, 58, 48, 57, 93, 21531, 12398, 32, 21517, 12399, 12290
       >>
\* '[00:10]' U+20BB7 (the surrogate pair D842 DFB7) U+306E
ExAstral ==
    << 91, 48, 48, 58, 49, 48, 93, 55362, 57271, 12398 >>

ExampleInputs ==
    {ExHelloWorld,
     ExChineseOneDigit,
     ExChineseTwoDigit,
     ExKonnichiwa,
     ExNoTimestamp,
     ExBlankAfterMarker,
     ExTwoMarkers,
     ExFracOne,
     ExFracTwo,
     ExFracThree,
     ExFracCenti,
     ExMixedLatin,
     ExChineseWithLatin,
     ExJapaneseSpaced,
     ExAstral}

\* '[00:02]a', '[00:01]a', '[00:01]' HIRAGANA A, '[00:03]' U+4E2D CR,
\* 'a' (no marker)
FewLines ==
    {<< 91, 48, 48, 58, 48, 50, 93, 97 >>,
     << 91, 48, 48, 58, 48, 49, 93, 97 >>,
     << 91, 48, 48, 58, 48, 49, 93, 12354 >>,
     << 91, 48, 48, 58, 48, 51, 93, 20013, 13 >>,
     << 97 >>}

RECURSIVE JoinLines(_)
JoinLines(ls) ==
    IF Len(ls) = 0 THEN << >>
    ELSE IF Len(ls) = 1 THEN ls[1]
    ELSE ls[1] \o << 10 >> \o JoinLines(Tail(ls))

\* files of several lines, with and without a final line break
FileInputs ==
    LET files == UNION {[1..k -> FewLines] : k \in 1..MaxLines}
    IN {JoinLines(f) : f \in files}
           \cup {JoinLines(f) \o << 10 >> : f \in [1..1 -> FewLines]}

Inputs ==
    BodyInputs \cup MarkerInputs \cup TwoMarkerInputs \cup ExampleInputs
        \cup FileInputs \cup {<< >>}

(***************************************************************************)
(* State of one call of parseLRC.                                          *)
(*   lrcContent    the argument                                            *)
(*   hasSegmenter  typeof Intl !== 'undefined' && Intl.Segmenter           *)
(*   lines         lrcContent.split('\n')                                  *)
(*   pos           the index in lines of the line the for loop is at       *)
(*   lyrics        the array the loop pushes to and the call returns       *)
(*   warnings      the console.warn calls made so far                      *)
(*   pc            "start", "loop" or "done" (returned)                    *)
(* A pushed record holds time, text, words and isJapanese, and three       *)
(* history fields the source does not have: src, the index of its physical *)
(* line; via, the tokenization branch taken; segs, what the segmenter      *)
(* returned for it.                                                        *)
(***************************************************************************)
VARIABLES lrcContent, hasSegmenter, lines, pos, lyrics, warnings, pc

parserVars == << lrcContent, hasSegmenter, lines, pos, lyrics, warnings, pc >>

(***************************************************************************)
(* State of the App component that calls parseLRC (src/App.tsx).  The      *)
(* parser's own array is called lyrics above, so the component's lyrics    *)
(* state is appLyrics here.                                                *)
(*   appLyrics         useState lyrics: the array the last load returned   *)
(*   currentLineIndex  useState currentLineIndex, an index from 0          *)
(*   currentTime       useState currentTime, in milliseconds               *)
(*   lastHandler       history: the handler that ran last, "none",         *)
(*                     "onload" or "onTimeUpdate"                          *)
(***************************************************************************)
VARIABLES appLyrics, currentLineIndex, currentTime, lastHandler

playerVars == << appLyrics, currentLineIndex, currentTime, lastHandler >>

(***************************************************************************)
(* The notes of the App component.  A value that may be null is a sequence *)
(* of no or one element.  A Note is a record of id, word, definitionData   *)
(* and chatHistory; its contextLine and timestamp are read by nothing      *)
(* modelled here and are left out.                                         *)
(*   notes         useState notes                                          *)
(*   stored        the list under localStorage's key 'lyric-notes'         *)
(*   selectedNote  useState selectedNote, null or a Note                   *)
(*   noteCall      history: the last call that changed the notes, with its *)
(*                 argument and the notes it found                         *)
(***************************************************************************)
VARIABLES notes, stored, selectedNote, noteCall

notesVars == << notes, stored, selectedNote, noteCall >>

(***************************************************************************)
(* The word-detail modal (src/components/WordDetailModal.tsx) and the App  *)
(* state that opens it.  The component stays mounted while it is closed,   *)
(* so its state outlives a close.                                          *)
(*   selectedWordInfo    useState selectedWordInfo, null or the word; the  *)
(*                       modal is open when it is not null                 *)
(*   loading, definitionData, chatHistory, chatInput, chatLoading          *)
(*                       the modal's useState values                       *)
(*   definitionRequests  the calls of getWordDefinition not yet settled,   *)
(*                       each with the number of its lookup and its word   *)
(*   chatRequests        the number of calls of getChatResponse not yet    *)
(*                       settled                                           *)
(*   lookups             the number of lookups started so far              *)
(*   clock               the number of ids taken from Date.now() so far    *)
(*   sent                the number of chat messages sent so far           *)
(*   lookup              history: the number of the lookup the last run of *)
(*                       the effect started (0 when it loaded a note) and  *)
(*                       what became of it: "none", "note", "pending",     *)
(*                       "resolved" or "rejected"                          *)
(***************************************************************************)
VARIABLES selectedWordInfo, loading, definitionData, chatHistory, chatInput,
          chatLoading, definitionRequests, chatRequests, lookups, clock,
          sent, lookup

modalVars ==
    << selectedWordInfo, loading, definitionData, chatHistory, chatInput,
       chatLoading, definitionRequests, chatRequests, lookups, clock,
       sent, lookup >>

appVars == << playerVars, notesVars, modalVars >>

vars == << parserVars, appVars >>

\* useState<LyricLine[]>([]), useState(0)
PlayerInit ==
    /\ appLyrics = << >>
    /\ currentLineIndex = 0
    /\ currentTime = 0
    /\ lastHandler = "none"

Null == << >>

Some(x) == << x >>

\* useState<Note[]>([]), useState<Note | null>(null), and an empty storage
NotesInit ==
    /\ notes = << >>
    /\ stored = << >>
    /\ selectedNote = Null
    /\ noteCall = [op |-> "none", note |-> Null, id |-> 0, before |-> << >>]

\* useState(null) in App; useState(true), (null), ([]), (''), (false) in
\* the modal
ModalInit ==
    /\ selectedWordInfo = Null
    /\ loading = TRUE
    /\ definitionData = Null
    /\ chatHistory = << >>
    /\ chatInput = << >>
    /\ chatLoading = FALSE
    /\ definitionRequests = {}
    /\ chatRequests = 0
    /\ lookups = 0
    /\ clock = 0
    /\ sent = 0
    /\ lookup = [id |-> 0, state |-> "none"]

AppInit == PlayerInit /\ NotesInit /\ ModalInit

Init ==
    /\ lrcContent \in Inputs
    /\ hasSegmenter \in BOOLEAN
    /\ lines = << >>
    /\ pos = 0
    /\ lyrics = << >>
    /\ warnings = 0
    /\ pc = "start"
    /\ AppInit

\* const lines = lrcContent.split('\n'); const lyrics = [];
Split ==
    /\ pc = "start"
    /\ lines' = SplitLines(lrcContent)
    /\ pos' = 1
    /\ pc' = "loop"
    /\ UNCHANGED << appVars, lrcContent, hasSegmenter, lyrics, warnings >>

InLoop == pc = "loop" /\ pos <= Len(lines)

Line == lines[pos]

Match == timeRegexExec(Line)

Text == LineText(Line, Match)

\* lyrics.push({ time, text, words, isJapanese })
Push(words, isJ, via, segs) ==
    /\ lyrics' = Append(lyrics,
                        [time |-> LineTime(Line, Match), text |-> Text,
                         words |-> words, isJapanese |-> isJ,
                         src |-> pos, via |-> via, segs |-> segs])
    /\ pos' = pos + 1
    /\ UNCHANGED << appVars, lrcContent, hasSegmenter, lines, pc >>

\* if (match) fails: the line is passed over
SkipUnmatched ==
    /\ InLoop
    /\ Match.index = 0
    /\ pos' = pos + 1
    /\ UNCHANGED << appVars, lrcContent, hasSegmenter, lines, lyrics, warnings, pc >>

\* if (text) fails: the line is passed over
SkipEmpty ==
    /\ InLoop
    /\ Match.index # 0
    /\ Text = << >>
    /\ pos' = pos + 1
    /\ UNCHANGED << appVars, lrcContent, hasSegmenter, lines, lyrics, warnings, pc >>

Emits(script) ==
    /\ InLoop
    /\ Match.index # 0
    /\ Text # << >>
    /\ ScriptOf(Text) = script

\* the try block runs to its end
PushSegmented ==
    /\ Emits("japanese")
    /\ hasSegmenter
    /\ \E segs \in Segmentations(Text) :
          Push(WordLikeSegments(segs), TRUE, "segmenter", segs)
    /\ UNCHANGED warnings

\* the try block throws: console.warn, then words = text.split('')
PushSegmenterThrew ==
    /\ Emits("japanese")
    /\ hasSegmenter
    /\ warnings' = warnings + 1
    /\ Push(SplitChars(Text), TRUE, "caught", << >>)

\* no Intl.Segmenter: words = text.split('')
PushNoSegmenter ==
    /\ Emits("japanese")
    /\ ~hasSegmenter
    /\ Push(SplitChars(Text), TRUE, "absent", << >>)
    /\ UNCHANGED warnings

\* words stay empty
PushChinese ==
    /\ Emits("chinese")
    /\ Push(UnsplitWords(Text), FALSE, "none", << >>)
    /\ UNCHANGED warnings

\* words = text.split(/\s+/)
PushLatin ==
    /\ Emits("latin")
    /\ Push(SplitSpace(Text), FALSE, "split", << >>)
    /\ UNCHANGED warnings

\* return lyrics.sort((a, b) => a.time - b.time)
Return ==
    /\ pc = "loop"
    /\ pos > Len(lines)
    /\ lyrics' = SortByTime(lyrics)
    /\ pc' = "done"
    /\ UNCHANGED << appVars, lrcContent, hasSegmenter, lines, pos, warnings >>

Next ==
    \/ Split
    \/ SkipUnmatched
    \/ SkipEmpty
    \/ PushSegmented
    \/ PushSegmenterThrew
    \/ PushNoSegmenter
    \/ PushChinese
    \/ PushLatin
    \/ Return

Spec == Init /\ [][Next]_vars

Done == pc = "done"

(***************************************************************************)
(* What the claims speak of, stated on the characters of a physical line.  *)
(***************************************************************************)
AsciiDigit(s, p) == p \in 1..Len(s) /\ s[p] \in 48..57

DigitValue(s, p) == s[p] - 48

\* a marker [MM:SS] (n = 7), [MM:SS.ff] (n = 10) or [MM:SS.fff] (n = 11)
\* occupies positions i .. i + n - 1 of s
WellFormedAt(s, i, n) ==
    /\ n \in {7, 10, 11}
    /\ i >= 1 /\ i + n - 1 <= Len(s)
    /\ s[i] = 91
    /\ AsciiDigit(s, i + 1) /\ AsciiDigit(s, i + 2)
    /\ s[i + 3] = 58
    /\ AsciiDigit(s, i + 4) /\ AsciiDigit(s, i + 5)
    /\ s[i + n - 1] = 93
    /\ n > 7 => s[i + 6] = 46 /\ \A q \in (i + 7)..(i + n - 2) : AsciiDigit(s, q)

MarkerAt(s, i) == \E n \in {7, 10, 11} : WellFormedAt(s, i, n)

HasMarker(s) == \E i \in 1..Len(s) : MarkerAt(s, i)

\* where the first marker of s starts, and how long it is
FirstMarkerStart(s) ==
    CHOOSE i \in 1..Len(s) :
        MarkerAt(s, i) /\ \A j \in 1..(i - 1) : ~MarkerAt(s, j)

FirstMarkerLen(s) ==
    CHOOSE n \in {7, 10, 11} : WellFormedAt(s, FirstMarkerStart(s), n)

\* MM * 60 + SS + F / 1000 of the marker at i, in milliseconds
MarkerTime(s, i, n) ==
    (DigitValue(s, i + 1) * 10 + DigitValue(s, i + 2)) * 60000
        + (DigitValue(s, i + 4) * 10 + DigitValue(s, i + 5)) * 1000
        + (IF n = 7 THEN 0
           ELSE DigitValue(s, i + 7) * 100 + DigitValue(s, i + 8) * 10
                    + (IF n = 11 THEN DigitValue(s, i + 9) ELSE 0))

\* s without the n code units from position i on
Outside(s, i, n) ==
    [k \in 1..(Len(s) - n) |-> IF k < i THEN s[k] ELSE s[k + n]]

Blank(t) == \A p \in 1..Len(t) : t[p] \in WhiteSpace

\* t is r without its leading and trailing white space
IsTrimOf(t, r) ==
    /\ t # << >> => t[1] \notin WhiteSpace /\ t[Len(t)] \notin WhiteSpace
    /\ \E a \in 0..(Len(r) - Len(t)) :
          /\ t = SubSeq(r, a + 1, a + Len(t))
          /\ \A p \in 1..a : r[p] \in WhiteSpace
          /\ \A p \in (a + Len(t) + 1)..Len(r) : r[p] \in WhiteSpace

\* the physical line a pushed record came from, and its first marker
SrcLine(l) == lines[l.src]

SrcStart(l) == FirstMarkerStart(SrcLine(l))

SrcLen(l) == FirstMarkerLen(SrcLine(l))

Emitted == {lyrics[j] : j \in 1..Len(lyrics)}

EmittedFrom(k) == {j \in 1..Len(lyrics) : lyrics[j].src = k}

HasKana(t) == \E p \in 1..Len(t) : t[p] \in 12352..12543

HasIdeograph(t) == \E p \in 1..Len(t) : t[p] \in 19968..40959

(***************************************************************************)
(* The claims.                                                             *)
(***************************************************************************)

\* C1: the sequence parseLRC returns is sorted non-decreasing by time,
\* whatever the order of the timestamps in the input.
C1_SortedByTime ==
    Done =>
        \A i \in 1..(Len(lyrics) - 1) : lyrics[i].time <= lyrics[i + 1].time

\* a returned sequence whose first two lines came in the other order
C1_Witness ==
    /\ Done
    /\ Len(lyrics) >= 2
    /\ lyrics[1].src > lyrics[2].src
    /\ lyrics[1].time < lyrics[2].time

\* C2: the time of an emitted line is MM * 60 + SS + F / 1000 of the first
\* marker of its line, F being 0 without a fraction, the three digits as
\* written, or the two digits and a zero; SS is not range-checked.
\* '[00:01.05]a' gives 1.05.
C2_TimeFormula ==
    /\ \A l \in Emitted :
          /\ HasMarker(SrcLine(l))
          /\ l.time = MarkerTime(SrcLine(l), SrcStart(l), SrcLen(l))
    /\ Done /\ lrcContent = ExFracCenti =>
          Len(lyrics) = 1 /\ lyrics[1].time = 1050

\* [MM:99.05]: a two-digit fraction after seconds out of the clock's range
C2_Witness ==
    /\ Done
    /\ \E l \in Emitted :
          /\ SrcLen(l) = 10
          /\ SrcLine(l)[SrcStart(l) + 4] = 57
          /\ SrcLine(l)[SrcStart(l) + 7] = 48
          /\ l.time = 99050

\* a line that starts with [MM:SS.f], a one-digit fraction, holds no
\* well-formed marker and has text after the bracket
OneDigitLine(s) ==
    /\ Len(s) >= 10
    /\ s[1] = 91
    /\ AsciiDigit(s, 2) /\ AsciiDigit(s, 3)
    /\ s[4] = 58
    /\ AsciiDigit(s, 5) /\ AsciiDigit(s, 6)
    /\ s[7] = 46
    /\ AsciiDigit(s, 8)
    /\ s[9] = 93
    /\ ~Blank(SubSeq(s, 10, Len(s)))
    /\ ~HasMarker(s)

OneDigitTime(s) ==
    (DigitValue(s, 2) * 10 + DigitValue(s, 3)) * 60000
        + (DigitValue(s, 5) * 10 + DigitValue(s, 6)) * 1000
        + DigitValue(s, 8) * 100

\* C3 as stated: a line whose timestamp has a one-digit fraction produces
\* a TimedLine; '[00:02.5]' and four ideographs gives time 2.5, that text
\* and no tokens.
C3_OneDigitRecognized ==
    Done =>
        /\ \A k \in 1..Len(lines) :
              OneDigitLine(lines[k]) =>
                  \E l \in Emitted :
                      l.src = k /\ l.time = OneDigitTime(lines[k])
        /\ lrcContent = ExChineseOneDigit =>
              /\ Len(lyrics) = 1
              /\ lyrics[1].time = 2500
              /\ lyrics[1].text = << 20320, 22909, 19990, 30028 >>
              /\ lyrics[1].words = << >>

\* C3 amended: a fraction has two or three digits.  A line whose only
\* timestamp has a one-digit fraction produces nothing ('[00:02.5]' and
\* four ideographs gives the empty sequence); '[00:01.50]' and
\* '[00:01.500]' both give 1.5, and '[00:02.50]' and four ideographs gives
\* one line of time 2.5, that text and no tokens.
C3_OneDigitDropped ==
    Done =>
        /\ \A k \in 1..Len(lines) :
              OneDigitLine(lines[k]) => EmittedFrom(k) = {}
        /\ lrcContent \in {ExChineseOneDigit, ExFracOne} => lyrics = << >>
        /\ lrcContent \in {ExFracTwo, ExFracThree} =>
              Len(lyrics) = 1 /\ lyrics[1].time = 1500
        /\ lrcContent = ExChineseTwoDigit =>
              /\ Len(lyrics) = 1
              /\ lyrics[1].time = 2500
              /\ lyrics[1].text = << 20320, 22909, 19990, 30028 >>
              /\ lyrics[1].words = << >>

\* '[00:02.5]' and four ideographs was parsed, and nothing came out
C3_Witness ==
    /\ Done
    /\ lrcContent = ExChineseOneDigit
    /\ OneDigitLine(lines[1])
    /\ lyrics = << >>

\* the text of line s is not empty once its first marker and the white
\* space around the rest are gone
TextLeft(s) ==
    ~Blank(Outside(s, FirstMarkerStart(s), FirstMarkerLen(s)))

\* C4: a physical line gives a TimedLine if and only if it holds a marker
\* and its text, the marker removed and the rest trimmed, is not empty;
\* every other line gives nothing, 'no timestamp here' and '[00:05]   '
\* give the empty sequence, and an emitted text is non-empty with no white
\* space at either end.
C4_EmittedIffMarkedAndText ==
    /\ Done =>
          /\ \A k \in 1..Len(lines) :
                Cardinality(EmittedFrom(k))
                    = IF HasMarker(lines[k]) /\ TextLeft(lines[k])
                      THEN 1 ELSE 0
          /\ lrcContent \in {ExNoTimestamp, ExBlankAfterMarker} =>
                lyrics = << >>
    /\ \A l \in Emitted :
          /\ l.text # << >>
          /\ l.text[1] \notin WhiteSpace
          /\ l.text[Len(l.text)] \notin WhiteSpace
          /\ l.src \in 1..Len(lines)

\* a line that has white space after its marker and nothing else was
\* passed over
C4_Witness ==
    /\ Done
    /\ \E k \in 1..Len(lines) :
          /\ HasMarker(lines[k])
          /\ Len(lines[k])
                >= FirstMarkerStart(lines[k]) + FirstMarkerLen(lines[k])
          /\ ~TextLeft(lines[k])
          /\ EmittedFrom(k) = {}

\* the line of l holds a second marker after its first
LaterMarkers(l) ==
    {p \in (SrcStart(l) + SrcLen(l))..Len(SrcLine(l)) : MarkerAt(SrcLine(l), p)}

Occurs(part, whole) ==
    \E q \in 1..(Len(whole) - Len(part) + 1) :
        SubSeq(whole, q, q + Len(part) - 1) = part

\* C5: on a line with two or more markers only the first is used: time
\* comes from it, it alone is removed, every later marker stays verbatim in
\* text, and the line gives one TimedLine.  '[00:01.00][00:02.00]text'
\* gives time 1 and text '[00:02.00]text'.
C5_OnlyFirstMarkerUsed ==
    /\ \A l \in Emitted :
          LaterMarkers(l) # {} =>
              /\ l.time = MarkerTime(SrcLine(l), SrcStart(l), SrcLen(l))
              /\ IsTrimOf(l.text, Outside(SrcLine(l), SrcStart(l), SrcLen(l)))
              /\ \A p \in LaterMarkers(l) : \A n \in {7, 10, 11} :
                    WellFormedAt(SrcLine(l), p, n) =>
                        Occurs(SubSeq(SrcLine(l), p, p + n - 1), l.text)
              /\ Cardinality(EmittedFrom(l.src)) = 1
    /\ Done /\ lrcContent = ExTwoMarkers =>
          /\ Len(lyrics) = 1
          /\ lyrics[1].time = 1000
          /\ lyrics[1].text
                = << 91, 48, 48, 58, 48, 50, 46, 48, 48, 93,
                     116, 101, 120, 116 >>

\* '[00:01.00][00:02.00]text' was parsed and gave its one line
C5_Witness ==
    /\ Done
    /\ lrcContent = ExTwoMarkers
    /\ Len(lyrics) = 1
    /\ LaterMarkers(lyrics[1]) = {11}

JapanesePaths == {"segmenter", "caught", "absent"}

\* C6: a text with a Kana character is japanese; otherwise a text with a
\* CJK ideograph is chinese; otherwise it is latin.  A text with both is
\* japanese (isJapanese true, Japanese tokenization), never chinese.
C6_ScriptPrecedence ==
    \A l \in Emitted :
        /\ HasKana(l.text) =>
              l.isJapanese /\ l.via \in JapanesePaths
        /\ ~HasKana(l.text) /\ HasIdeograph(l.text) =>
              ~l.isJapanese /\ l.via = "none" /\ l.words = << >>
        /\ ~HasKana(l.text) /\ ~HasIdeograph(l.text) =>
              ~l.isJapanese /\ l.via = "split"

\* a text with Kana and an ideograph was emitted as japanese
C6_Witness ==
    \E l \in Emitted :
        /\ HasKana(l.text) /\ HasIdeograph(l.text)
        /\ l.isJapanese
        /\ l.via \in JapanesePaths

\* C7 as stated: every token of every emitted line, on every tokenization
\* path, is non-empty and not pure white space.
C7_NoBlankToken ==
    \A l \in Emitted : \A k \in 1..Len(l.words) :
        l.words[k] # << >> /\ ~Blank(l.words[k])

\* C7 amended: every token is non-empty; a token made by splitting on
\* white space or by the segmenter is not pure white space; on the
\* per-character fallback (segmenter absent or throwing) each character of
\* text is a token, a white-space character inside text included.
C7_NoEmptyToken ==
    \A l \in Emitted :
        /\ \A k \in 1..Len(l.words) : l.words[k] # << >>
        /\ l.via \in {"split", "segmenter"} =>
              \A k \in 1..Len(l.words) : ~Blank(l.words[k])
        /\ l.via \in {"caught", "absent"} =>
              /\ Len(l.words) = Len(l.text)
              /\ \A p \in 1..Len(l.text) :
                    l.text[p] \in WhiteSpace => l.words[p] = << l.text[p] >>

\* a fallback line with white space inside its text, which is a token
C7_Witness ==
    \E l \in Emitted :
        /\ l.via \in {"caught", "absent"}
        /\ \E k \in 1..Len(l.words) : Blank(l.words[k])

\* where the maximal runs of non-white-space of t start and end
RunStarts(t) ==
    {p \in 1..Len(t) :
        t[p] \notin WhiteSpace /\ (p = 1 \/ t[p - 1] \in WhiteSpace)}

RunEnds(t) ==
    {p \in 1..Len(t) :
        t[p] \notin WhiteSpace /\ (p = Len(t) \/ t[p + 1] \in WhiteSpace)}

Nth(S, k) == CHOOSE p \in S : Cardinality({q \in S : q <= p}) = k

RECURSIVE JoinWithSpace(_)
JoinWithSpace(ws) ==
    IF ws = << >> THEN << >>
    ELSE IF Len(ws) = 1 THEN ws[1]
    ELSE ws[1] \o << 32 >> \o JoinWithSpace(Tail(ws))

\* t with each run of white space made one U+0020
RECURSIVE Collapsed(_)
Collapsed(t) ==
    IF t = << >> THEN << >>
    ELSE IF t[1] \notin WhiteSpace THEN << t[1] >> \o Collapsed(Tail(t))
    ELSE IF Len(t) > 1 /\ t[2] \in WhiteSpace THEN Collapsed(Tail(t))
    ELSE << 32 >> \o Collapsed(Tail(t))

\* C8: for a latin line (no Kana, no ideograph, other scripts included)
\* tokens is the ordered list of the maximal non-white-space runs of text:
\* at least one, none empty, and joined by single spaces they give text
\* with each white-space run collapsed.  '[00:01.50]Hello world' gives
\* time 1.5 and the tokens Hello, world.
C8_LatinTokensAreRuns ==
    /\ \A l \in Emitted :
          ~HasKana(l.text) /\ ~HasIdeograph(l.text) =>
              /\ l.via = "split"
              /\ Len(l.words) >= 1
              /\ Len(l.words) = Cardinality(RunStarts(l.text))
              /\ \A k \in 1..Len(l.words) :
                    /\ l.words[k] # << >>
                    /\ l.words[k]
                          = SubSeq(l.text, Nth(RunStarts(l.text), k),
                                   Nth(RunEnds(l.text), k))
              /\ JoinWithSpace(l.words) = Collapsed(l.text)
    /\ Done /\ lrcContent = ExHelloWorld =>
          /\ Len(lyrics) = 1
          /\ lyrics[1].time = 1500
          /\ lyrics[1].text
                = << 72, 101, 108, 108, 111, 32, 119, 111, 114, 108, 100 >>
          /\ lyrics[1].words
                = << << 72, 101, 108, 108, 111 >>,
                     << 119, 111, 114, 108, 100 >> >>
          /\ ~lyrics[1].isJapanese

\* a latin line of other scripts with a run of two white-space characters
\* and a tab between its words
C8_Witness ==
    \E l \in Emitted :
        /\ l.via = "split"
        /\ Len(l.words) = 3
        /\ \E p \in 1..(Len(l.text) - 1) :
              l.text[p] \in WhiteSpace /\ l.text[p + 1] \in WhiteSpace
        /\ \E p \in 1..Len(l.text) : l.text[p] = 9
        /\ \E p \in 1..Len(l.text) : l.text[p] > 127

\* C9: for a chinese line (an ideograph, no Kana) tokens is empty, also
\* when the text holds white-space-separated Latin words or digits, and
\* text is the line's text unchanged.
C9_ChineseUnsplit ==
    \A l \in Emitted :
        HasIdeograph(l.text) /\ ~HasKana(l.text) =>
            /\ l.words = << >>
            /\ l.via = "none"
            /\ IsTrimOf(l.text, Outside(SrcLine(l), SrcStart(l), SrcLen(l)))

\* a chinese line with a Latin word and digits between spaces
C9_Witness ==
    \E l \in Emitted :
        /\ HasIdeograph(l.text) /\ ~HasKana(l.text)
        /\ \E p \in 1..Len(l.text) : l.text[p] = 32
        /\ \E p \in 1..Len(l.text) : l.text[p] \in 97..122
        /\ \E p \in 1..Len(l.text) : l.text[p] \in 48..57
        /\ l.words = << >>

WordLike(l) == {i \in 1..Len(l.segs) : l.segs[i].isWordLike}

\* C10: for a japanese line, with the segmenter available and not failing
\* tokens is the ordered list of the segments flagged word-like, the
\* others discarded; without the segmenter tokens is the characters of
\* text, one each, non-word characters included (a character being what
\* JavaScript indexes in a string, a UTF-16 code unit).
C10_JapaneseTokens ==
    /\ \A l \in Emitted :
          HasKana(l.text) =>
              /\ l.via = "segmenter" =>
                    /\ hasSegmenter
                    /\ Len(l.words) = Cardinality(WordLike(l))
                    /\ \A i \in WordLike(l) :
                          l.words[Cardinality({q \in WordLike(l) : q <= i})]
                              = l.segs[i].segment
              /\ ~hasSegmenter =>
                    /\ l.via = "absent"
                    /\ Len(l.words) = Len(l.text)
                    /\ \A p \in 1..Len(l.text) : l.words[p] = << l.text[p] >>
              /\ hasSegmenter => l.via \in {"segmenter", "caught"}
    /\ Done /\ lrcContent = ExKonnichiwa =>
          /\ Len(lyrics) = 1
          /\ lyrics[1].time = 60000
          /\ lyrics[1].isJapanese
          /\ lyrics[1].words # << >>

\* a segmented japanese line of which a segment that is not word-like was
\* discarded and two word-like ones were kept
C10_Witness ==
    \E l \in Emitted :
        /\ l.via = "segmenter"
        /\ \E i \in 1..Len(l.segs) : ~l.segs[i].isWordLike
        /\ Len(l.words) >= 2
        /\ Len(l.words) < Len(l.segs)

Caught == {j \in 1..Len(lyrics) : lyrics[j].via = "caught"}

\* C11: when the segmenter throws on a Japanese line, parseLRC goes on and
\* returns: that line is emitted with one token per character, a
\* diagnostic is emitted, and every line's time, text and flag, every
\* other line's tokens and the final order are what they are without the
\* failure.
C11_SegmenterFailureContained ==
    /\ warnings = Cardinality(Caught)
    /\ pc \in {"start", "loop", "done"}
    /\ pc = "loop" =>
          pos = Len(lyrics)
                    + Cardinality({k \in 1..(pos - 1) : EmittedFrom(k) = {}})
                    + 1
    /\ \A l \in Emitted :
          /\ l.time = MarkerTime(SrcLine(l), SrcStart(l), SrcLen(l))
          /\ IsTrimOf(l.text, Outside(SrcLine(l), SrcStart(l), SrcLen(l)))
          /\ l.isJapanese = HasKana(l.text)
          /\ l.via = "caught" =>
                /\ hasSegmenter /\ HasKana(l.text)
                /\ Len(l.words) = Len(l.text)
                /\ \A p \in 1..Len(l.text) : l.words[p] = << l.text[p] >>
          /\ l.via = "segmenter" =>
                /\ Len(l.words) = Cardinality(WordLike(l))
                /\ \A k \in 1..Len(l.words) : ~Blank(l.words[k])
          /\ l.via = "split" =>
                Len(l.words) = Cardinality(RunStarts(l.text))
          /\ l.via = "none" => l.words = << >>
    /\ Done =>
          /\ \A k \in 1..Len(lines) :
                (EmittedFrom(k) # {}) = (HasMarker(lines[k]) /\ TextLeft(lines[k]))
          /\ \A i \in 1..(Len(lyrics) - 1) :
                \/ lyrics[i].time < lyrics[i + 1].time
                \/ /\ lyrics[i].time = lyrics[i + 1].time
                   /\ lyrics[i].src < lyrics[i + 1].src

\* a returned file of which one Japanese line made the segmenter throw and
\* another was segmented
C11_Witness ==
    /\ Done
    /\ warnings = 1
    /\ \E j \in 1..Len(lyrics) : lyrics[j].via = "caught"
    /\ \E j \in 1..Len(lyrics) : lyrics[j].via = "segmenter"
    /\ \E j \in 1..Len(lyrics) : lyrics[j].via = "split"

EndsWithCR(t) == t # << >> /\ t[Len(t)] = 13

\* C12 as stated: the input is split on \n only and the \r that ends a
\* line of a \r\n file is kept at the end of the emitted text.
C12_CarriageReturnKept ==
    /\ pc # "start" =>
          /\ JoinLines(lines) = lrcContent
          /\ \A k \in 1..Len(lines) : \A p \in 1..Len(lines[k]) :
                lines[k][p] # 10
    /\ \A l \in Emitted : EndsWithCR(SrcLine(l)) => EndsWithCR(l.text)

\* C12 amended: the input is split on \n only, so the \r of a \r\n ending
\* stays at the end of the physical line; the trim then removes it with
\* the other trailing white space, and no emitted text ends with \r.
C12_CarriageReturnTrimmed ==
    /\ pc # "start" =>
          /\ JoinLines(lines) = lrcContent
          /\ \A k \in 1..Len(lines) : \A p \in 1..Len(lines[k]) :
                lines[k][p] # 10
    /\ \A l \in Emitted :
          /\ ~EndsWithCR(l.text)
          /\ IsTrimOf(l.text, Outside(SrcLine(l), SrcStart(l), SrcLen(l)))

\* a file of several lines, one ending in \r, whose emitted text lost it
C12_Witness ==
    /\ Done
    /\ Len(lines) >= 2
    /\ \E l \in Emitted :
          /\ EndsWithCR(SrcLine(l))
          /\ l.src < Len(lines)
          /\ l.text = SubSeq(SrcLine(l), SrcLen(l) + 1, Len(SrcLine(l)) - 1)

\* C13: the final sort is stable: two surviving lines of equal time come
\* out in the order of their physical lines, and lines of distinct times
\* come out in the order of their times.
C13_StableSort ==
    Done =>
        \A i \in 1..Len(lyrics) : \A j \in (i + 1)..Len(lyrics) :
            /\ lyrics[i].time <= lyrics[j].time
            /\ lyrics[i].time = lyrics[j].time => lyrics[i].src < lyrics[j].src

\* two lines of equal time returned in input order, after a line of a
\* later time that came first in the file
C13_Witness ==
    /\ Done
    /\ Len(lyrics) = 3
    /\ lyrics[1].time = lyrics[2].time
    /\ lyrics[1].src = 2 /\ lyrics[2].src = 3 /\ lyrics[3].src = 1

(***************************************************************************)
(* The player of src/App.tsx: a lyric file is loaded (handleLrcUpload,     *)
(* whose reader.onload calls parseLRC and stores what it returns) and the  *)
(* audio element reports its position (onTimeUpdate).  Handlers run to     *)
(* completion, so no other handler runs while parseLRC is at work; pc is   *)
(* "idle" when no call of parseLRC is under way.                           *)
(***************************************************************************)

\* time >= line.time && (!nextLine || time < nextLine.time), for index i
IsActiveAt_NoNext(ls, time, i) == time >= ls[i + 1].time

IsActiveAt(ls, time, i) ==
    /\ time >= ls[i + 1].time
    /\ (i + 1 >= Len(ls) \/ time < ls[i + 2].time)

\* lyrics.findIndex(...): the first index that passes, or -1
RECURSIVE findIndexFrom(_, _, _)
findIndexFrom(ls, time, i) ==
    IF i >= Len(ls) THEN -1
    ELSE IF IsActiveAt(ls, time, i) THEN i
    ELSE findIndexFrom(ls, time, i + 1)

findIndex(ls, time) == findIndexFrom(ls, time, 0)

\* the positions the audio element may report: the start, and just before,
\* at and just after the time of each loaded line
PlayPositions ==
    {0} \cup {t \in UNION {{appLyrics[i].time - 1, appLyrics[i].time,
                              appLyrics[i].time + 1} : i \in 1..Len(appLyrics)} :
                t >= 0}

\* the parser's locals do not outlive the call
ParserIdle ==
    /\ lrcContent = << >>
    /\ lines = << >>
    /\ pos = 0
    /\ lyrics = << >>
    /\ warnings = 0
    /\ pc = "idle"

\* setLyrics(parsed), the end of reader.onload
SetLyrics ==
    /\ pc = "done"
    /\ appLyrics' = lyrics
    /\ lastHandler' = "onload"
    /\ lrcContent' = << >>
    /\ lines' = << >>
    /\ pos' = 0
    /\ lyrics' = << >>
    /\ warnings' = 0
    /\ pc' = "idle"
    /\ UNCHANGED << hasSegmenter, currentLineIndex, currentTime, notesVars,
                    modalVars >>

\* onTimeUpdate with audioRef.current.currentTime = time
TimeUpdate(time) ==
    /\ pc = "idle"
    /\ currentTime' = time
    /\ LET index == findIndex(appLyrics, time)
       IN currentLineIndex' =
              IF index # -1 /\ index # currentLineIndex THEN index
              ELSE currentLineIndex
    /\ lastHandler' = "onTimeUpdate"
    /\ UNCHANGED << parserVars, appLyrics, notesVars, modalVars >>

onTimeUpdate == \E time \in PlayPositions : TimeUpdate(time)

\* one load of any input, then the playback
NextLookup ==
    \/ Split
    \/ SkipUnmatched
    \/ SkipEmpty
    \/ PushSegmented
    \/ PushSegmenterThrew
    \/ PushNoSegmenter
    \/ PushChinese
    \/ PushLatin
    \/ Return
    \/ SetLyrics
    \/ onTimeUpdate

SpecLookup == Init /\ [][NextLookup]_vars

\* ls[i] (i from 0) is a line with the latest time not after p, and the
\* line after it, if any, is later than p
LatestNotAfter(ls, i, p) ==
    /\ i \in 0..(Len(ls) - 1)
    /\ ls[i + 1].time <= p
    /\ i = Len(ls) - 1 \/ ls[i + 2].time > p
    /\ \A j \in 1..Len(ls) : ls[j].time <= p => ls[j].time <= ls[i + 1].time

\* C14: after a time update at a position p that is not before every line
\* of what parseLRC returned, currentLineIndex is an index i with
\* lyrics[i].time <= p and (i last or lyrics[i+1].time > p), the line with
\* the latest time not after p (lines of equal time included).
C14_ActiveLineIsLatestNotAfter ==
    (/\ lastHandler = "onTimeUpdate"
     /\ \E j \in 1..Len(appLyrics) : appLyrics[j].time <= currentTime)
        => LatestNotAfter(appLyrics, currentLineIndex, currentTime)

C14_Witness ==
    /\ lastHandler = "onTimeUpdate"
    /\ Len(appLyrics) = 3
    /\ appLyrics[1].time = appLyrics[2].time
    /\ appLyrics[3].time > currentTime
    /\ appLyrics[2].time <= currentTime
    /\ currentLineIndex = 1

\* the files loaded one after another:
\* '[00:02]a' LF '[00:01]a' LF '[00:01]' HIRAGANA A,
\* '[00:03]' U+4E2D CR LF 'a' LF '[00:05]   ', '[00:01]a', and 'a'
PlayerFiles ==
    {JoinLines(<< << 91, 48, 48, 58, 48, 50, 93, 97 >>,
                  << 91, 48, 48, 58, 48, 49, 93, 97 >>,
                  << 91, 48, 48, 58, 48, 49, 93, 12354 >> >>),
     JoinLines(<< << 91, 48, 48, 58, 48, 51, 93, 20013, 13 >>,
                  << 97 >>,
                  ExBlankAfterMarker >>),
     << 91, 48, 48, 58, 48, 49, 93, 97 >>,
     << 97 >>}

\* reader.onload: text = ev.target.result, and parseLRC(text) is entered
onload ==
    /\ pc = "idle"
    /\ \E text \in PlayerFiles : lrcContent' = text
    /\ pc' = "start"
    /\ UNCHANGED << appVars, hasSegmenter, lines, pos, lyrics, warnings >>

\* the component is mounted and no file has been loaded
InitPlayer ==
    /\ ParserIdle
    /\ hasSegmenter \in BOOLEAN
    /\ AppInit

\* any number of loads and time updates
NextPlayer ==
    \/ onload
    \/ Split
    \/ SkipUnmatched
    \/ SkipEmpty
    \/ PushSegmented
    \/ PushSegmenterThrew
    \/ PushNoSegmenter
    \/ PushChinese
    \/ PushLatin
    \/ Return
    \/ SetLyrics
    \/ onTimeUpdate

SpecPlayer == InitPlayer /\ [][NextPlayer]_vars

\* C15: after any loads and time updates, whenever lyrics is not empty,
\* currentLineIndex is a valid index into it, so that one rendered line is
\* the active one.  (Violated: a load keeps the index of the file before.)
C15_CurrentLineIndexInRange ==
    appLyrics # << >> => currentLineIndex \in 0..(Len(appLyrics) - 1)


(***************************************************************************)
(* The notes of src/App.tsx: saveNoteToStorage and deleteNote.             *)
(***************************************************************************)

\* the ids a note may carry (Date.now().toString() of some moment)
MaxNoteIds == 3

NoteIds == 1..MaxNoteIds

\* the words looked up: 'a' and 'b'
Words == {<< 97 >>, << 98 >>}

\* what getWordDefinition answers for a word
DefinitionOf(word) == [word |-> word]

NoteInputs ==
    {[id |-> i, word |-> w, definitionData |-> DefinitionOf(w),
      chatHistory |-> << >>] : i \in NoteIds, w \in Words}

\* notes.findIndex(n => n.id === newNote.id), from 0, or -1
RECURSIVE existingIndexFrom(_, _, _)
existingIndexFrom(ns, newNote, i) ==
    IF i >= Len(ns) THEN -1
    ELSE IF ns[i + 1].id = newNote.id THEN i
    ELSE existingIndexFrom(ns, newNote, i + 1)

existingIndex(ns, newNote) == existingIndexFrom(ns, newNote, 0)

\* updatedNotes of saveNoteToStorage
updatedNotes_Prepend(ns, newNote) == << newNote >> \o ns

updatedNotes(ns, newNote) ==
    IF existingIndex(ns, newNote) >= 0
    THEN [ns EXCEPT ![existingIndex(ns, newNote) + 1] = newNote]
    ELSE << newNote >> \o ns

\* notes.filter(n => n.id !== id)
filterNotes(ns, id) == SelectSeq(ns, LAMBDA n : n.id # id)

\* saveNoteToStorage(newNote), as far as the notes go
saveNoteToStorage(newNote) ==
    /\ notes' = updatedNotes(notes, newNote)
    /\ stored' = updatedNotes(notes, newNote)
    /\ selectedNote' = Some(newNote)
    /\ noteCall' = [op |-> "save", note |-> Some(newNote),
                    id |-> newNote.id, before |-> notes]

\* deleteNote(id), as far as the notes go
deleteNote(id) ==
    /\ notes' = filterNotes(notes, id)
    /\ stored' = filterNotes(notes, id)
    /\ noteCall' = [op |-> "delete", note |-> Null, id |-> id,
                    before |-> notes]
    /\ UNCHANGED selectedNote

SaveNote ==
    /\ \E newNote \in NoteInputs : saveNoteToStorage(newNote)
    /\ UNCHANGED << parserVars, playerVars, modalVars >>

DeleteNote ==
    /\ \E id \in NoteIds : deleteNote(id)
    /\ UNCHANGED << parserVars, playerVars, modalVars >>

DistinctIds(ns) ==
    \A i, j \in 1..Len(ns) : i # j => ns[i].id # ns[j].id

\* the lists the mount effect may find in the storage
InitialNotes ==
    {ns \in UNION {[1..k -> NoteInputs] : k \in 0..MaxNoteIds} :
        DistinctIds(ns)}

\* after the mount effect: setNotes(JSON.parse(savedNotes))
InitNotes ==
    /\ ParserIdle
    /\ hasSegmenter = TRUE
    /\ PlayerInit
    /\ ModalInit
    /\ notes \in InitialNotes
    /\ stored = notes
    /\ selectedNote = Null
    /\ noteCall = [op |-> "none", note |-> Null, id |-> 0, before |-> << >>]

NextNotes ==
    \/ SaveNote
    \/ DeleteNote

SpecNotes == InitNotes /\ [][NextNotes]_vars

\* C17: from a list of distinct ids, no two notes ever share an id; a save
\* of a present id puts the note at that id's place and keeps the length, a
\* save of a new id prepends, a delete removes exactly the notes of that id
\* and keeps the others in order, and what is written to localStorage is the
\* new list.
C17_NotesKeepDistinctIds ==
    /\ DistinctIds(notes)
    /\ stored = notes
    /\ noteCall.op = "save" =>
          LET b == noteCall.before
              n == noteCall.note[1]
              at == {k \in 1..Len(b) : b[k].id = n.id}
          IN IF at # {}
             THEN /\ Len(notes) = Len(b)
                  /\ \A k \in 1..Len(b) :
                        notes[k] = IF k \in at THEN n ELSE b[k]
             ELSE /\ Len(notes) = Len(b) + 1
                  /\ notes[1] = n
                  /\ \A k \in 1..Len(b) : notes[k + 1] = b[k]
    /\ noteCall.op = "delete" =>
          LET b == noteCall.before
              keep == {k \in 1..Len(b) : b[k].id # noteCall.id}
          IN /\ Len(notes) = Cardinality(keep)
             /\ \A k \in keep :
                   notes[Cardinality({j \in keep : j <= k})] = b[k]

C17_Witness ==
    /\ noteCall.op = "save"
    /\ Len(noteCall.before) = 3
    /\ noteCall.before[2].id = noteCall.id
    /\ noteCall.before[2] # noteCall.note[1]
    /\ notes[2] = noteCall.note[1]
    /\ Len(notes) = 3


(***************************************************************************)
(* The word-detail modal.  A handler and the render and effect that follow *)
(* it are one step; a promise settles in a step of its own, whatever the   *)
(* modal shows by then, since nothing cancels a request.                   *)
(***************************************************************************)

\* the lookups one run may start
MaxLookups == 2

\* the chat messages one run may send
MaxSends == 2

\* the notes one run may save under an id of their own
MaxSaves == 1

\* what is typed into the chat input: nothing, a space, 'q'
ChatInputs == {<< >>, << 32 >>, << 113 >>}

\* "I couldn't generate a response."
CouldNotGenerate ==
    << 73, 32, 99, 111, 117, 108, 100, 110, 39, 116, 32, 103, 101,
       110, 101, 114, 97, 116, 101, 32, 97, 32, 114, 101, 115, 112,
       111, 110, 115, 101, 46 >>

\* "Sorry, I encountered an error."
SorryError ==
    << 83, 111, 114, 114, 121, 44, 32, 73, 32, 101, 110, 99, 111, 117,
       110, 116, 101, 114, 101, 100, 32, 97, 110, 32, 101, 114, 114,
       111, 114, 46 >>

\* what getChatResponse resolves with: result.text ('r' here), the text in
\* its place when it is empty, and the text of the catch
ChatResponses == {<< 114 >>, CouldNotGenerate, SorryError}

isOpen == selectedWordInfo # Null

word == IF selectedWordInfo # Null THEN selectedWordInfo[1].word ELSE << >>

initialData == selectedNote

\* the effect's branch "Fetch new": getWordDefinition(word) is called
FetchNew(w) ==
    /\ loading' = TRUE
    /\ definitionData' = Null
    /\ chatHistory' = << >>
    /\ lookups' = lookups + 1
    /\ definitionRequests' =
           definitionRequests \cup {[id |-> lookups + 1, word |-> w]}
    /\ lookup' = [id |-> lookups + 1, state |-> "pending"]

\* the effect's branch "Load from saved note"
LoadFromNote(note) ==
    /\ definitionData' = Some(note.definitionData)
    /\ chatHistory' = note.chatHistory
    /\ loading' = FALSE
    /\ lookup' = [id |-> 0, state |-> "note"]
    /\ UNCHANGED << lookups, definitionRequests >>

\* handleWordClick(word, contextLine) with a cleanWord that is not empty;
\* the lyric lines lie under the modal's overlay while it is open
handleWordClick ==
    /\ ~isOpen
    /\ lookups < MaxLookups
    /\ \E w \in Words :
          /\ selectedWordInfo' = Some([word |-> w])
          /\ FetchNew(w)
    /\ selectedNote' = Null
    /\ UNCHANGED << parserVars, playerVars, notes, stored, noteCall,
                    chatInput, chatLoading, chatRequests, clock, sent >>

\* handleNoteClick(note), from the sidebar
handleNoteClick ==
    /\ ~isOpen
    /\ \E k \in 1..Len(notes) :
          /\ selectedNote' = Some(notes[k])
          /\ selectedWordInfo' = Some([word |-> notes[k].word])
          /\ LoadFromNote(notes[k])
    /\ UNCHANGED << parserVars, playerVars, notes, stored, noteCall,
                    chatInput, chatLoading, chatRequests, clock, sent >>

\* onClose: setSelectedWordInfo(null); the effect runs and does nothing
onClose ==
    /\ isOpen
    /\ selectedWordInfo' = Null
    /\ UNCHANGED << parserVars, playerVars, notesVars, loading,
                    definitionData, chatHistory, chatInput, chatLoading,
                    definitionRequests, chatRequests, lookups, clock, sent,
                    lookup >>

Settled(r, state) ==
    IF r.id = lookup.id THEN [id |-> r.id, state |-> state] ELSE lookup

\* .then((data) => { setDefinitionData(data); setLoading(false) })
definitionThen ==
    /\ \E r \in definitionRequests :
          /\ definitionData' = Some(DefinitionOf(r.word))
          /\ definitionRequests' = definitionRequests \ {r}
          /\ lookup' = Settled(r, "resolved")
    /\ loading' = FALSE
    /\ UNCHANGED << parserVars, playerVars, notesVars, selectedWordInfo,
                    chatHistory, chatInput, chatLoading, chatRequests,
                    lookups, clock, sent >>

\* .catch((err) => { console.error(err); setLoading(false) })
definitionCatch ==
    /\ \E r \in definitionRequests :
          /\ definitionRequests' = definitionRequests \ {r}
          /\ lookup' = Settled(r, "rejected")
    /\ loading' = FALSE
    /\ UNCHANGED << parserVars, playerVars, notesVars, selectedWordInfo,
                    definitionData, chatHistory, chatInput, chatLoading,
                    chatRequests, lookups, clock, sent >>

\* the chat section is rendered: open, not loading, a definition held
ChatShown == isOpen /\ ~loading /\ definitionData # Null

\* onChange of the chat input
setChatInput ==
    /\ ChatShown
    /\ \E text \in ChatInputs : chatInput' = text
    /\ UNCHANGED << parserVars, playerVars, notesVars, selectedWordInfo,
                    loading, definitionData, chatHistory, chatLoading,
                    definitionRequests, chatRequests, lookups, clock, sent,
                    lookup >>

\* handleSendMessage up to its await
handleSendMessage ==
    /\ IF trim(chatInput) = << >>
       THEN UNCHANGED << chatHistory, chatInput, chatLoading, chatRequests,
                         sent >>
       ELSE /\ chatHistory' =
                  Append(chatHistory, [role |-> "user", text |-> chatInput])
            /\ chatInput' = << >>
            /\ chatLoading' = TRUE
            /\ chatRequests' = chatRequests + 1
            /\ sent' = sent + 1
    /\ UNCHANGED << parserVars, playerVars, notesVars, selectedWordInfo,
                    loading, definitionData, definitionRequests, lookups,
                    clock, lookup >>

\* the send button: disabled={chatLoading || !chatInput.trim()}
sendClick ==
    /\ ChatShown
    /\ sent < MaxSends
    /\ ~(chatLoading \/ trim(chatInput) = << >>)
    /\ handleSendMessage

\* onKeyDown: e.key === 'Enter' && handleSendMessage()
sendEnter ==
    /\ ChatShown
    /\ sent < MaxSends
    /\ handleSendMessage

\* handleSendMessage from its await on: getChatResponse has resolved
chatThen ==
    /\ chatRequests > 0
    /\ \E responseText \in ChatResponses :
          chatHistory' =
              Append(chatHistory, [role |-> "model", text |-> responseText])
    /\ chatLoading' = FALSE
    /\ chatRequests' = chatRequests - 1
    /\ UNCHANGED << parserVars, playerVars, notesVars, selectedWordInfo,
                    loading, definitionData, chatInput, definitionRequests,
                    lookups, clock, sent, lookup >>

\* handleSave: the button is rendered when !loading && definitionData
handleSave ==
    /\ isOpen
    /\ ~loading
    /\ definitionData # Null
    /\ initialData = Null => clock < MaxSaves
    /\ LET note == [id |-> IF initialData # Null THEN initialData[1].id
                           ELSE clock + 1,
                    word |-> word,
                    definitionData |-> definitionData[1],
                    chatHistory |-> chatHistory]
       IN /\ saveNoteToStorage(note)
          /\ IF note.word = word THEN LoadFromNote(note) ELSE FetchNew(word)
    /\ clock' = IF initialData = Null THEN clock + 1 ELSE clock
    /\ UNCHANGED << parserVars, playerVars, selectedWordInfo, chatInput,
                    chatLoading, chatRequests, sent >>

\* onDelete(note.id), from the sidebar
onDelete ==
    /\ ~isOpen
    /\ \E k \in 1..Len(notes) : deleteNote(notes[k].id)
    /\ UNCHANGED << parserVars, playerVars, modalVars >>

InitModal ==
    /\ ParserIdle
    /\ hasSegmenter = TRUE
    /\ AppInit

NextModal ==
    \/ handleWordClick
    \/ handleNoteClick
    \/ onClose
    \/ definitionThen
    \/ definitionCatch
    \/ setChatInput
    \/ sendClick
    \/ sendEnter
    \/ chatThen
    \/ handleSave
    \/ onDelete

SpecModal == InitModal /\ [][NextModal]_vars


\* C16: whenever the modal is open, not loading and holds a definition,
\* the definition is the one of the selected word, fetched or loaded from
\* a note, however requests and word changes interleave.  (Violated: the
\* answer of an earlier request is taken for the word shown now.)
C16_DefinitionOfSelectedWord ==
    (isOpen /\ ~loading /\ definitionData # Null)
        => definitionData[1] = DefinitionOf(word)

\* C18: the chat history alternates user and model messages and starts
\* with a user message, and while a chat request is in flight no second
\* message is sent, by the button or by the Enter key.  (Violated: the
\* Enter key sends while chatLoading is true.)
C18_ChatAlternates ==
    /\ \A i \in 1..Len(chatHistory) :
          chatHistory[i].role = IF i % 2 = 1 THEN "user" ELSE "model"
    /\ chatRequests <= 1

\* C19: once the request of the lookup under way has settled, loading is
\* false until the next lookup starts; if it was rejected, definitionData
\* is null; and when no chat request is in flight chatLoading is false,
\* each request having answered with a text.  (Violated: after a rejection
\* the modal holds the definition an earlier request brought.)
C19_LookupEnds ==
    /\ lookup.state \in {"resolved", "rejected"} => ~loading
    /\ lookup.state = "rejected" => definitionData = Null
    /\ chatRequests = 0 => ~chatLoading
    /\ \A i \in 1..Len(chatHistory) :
          chatHistory[i].role = "model"
              => chatHistory[i].text \in ChatResponses


====
